---------------------------- MODULE Spec2Model ----------------------------
(***************************************************************************)
(* Kronig-Penney energy bands (EnergyBand.py): the residual of the         *)
(* dispersion relation, the vectorized energy solver E, the band assembler *)
(* getBands and the presenter plotBands, as one state machine whose        *)
(* behaviours are single top-level calls.                                  *)
(*                                                                         *)
(* Numbers.  Every real the program forms outside the root-finder is a     *)
(* rational multiple of a power of pi; it is kept exactly, as the record   *)
(* [num, den, pe] standing for (num/den) * pi^pe in lowest terms.          *)
(* cos of a rational multiple of pi is kept as its canonical angle in      *)
(* [0, pi], on which cos is injective, so two cosines are equal exactly    *)
(* when their records are.  A root returned by the root-finder cannot be   *)
(* computed exactly; it is kept as the pair (residual function, initial    *)
(* guess) that determines it, the root-finder being deterministic.         *)
(***************************************************************************)
EXTENDS Integers, Sequences, FiniteSets, TLC

(* ----------------------------- bounds --------------------------------- *)
\* longest wavenumber sequence offered to a direct call of E
MaxLen == 2
\* largest band index offered to E, largest band count offered to getBands
MaxN == 2
\* lattice spacings offered are 0..MaxA
MaxA == 2

(* ------------------------- program constants -------------------------- *)
\* def E(k, n=1, a=1, U0b=4, **kwargs)
E_default_n == 1
\* np.linspace(-pi/a, pi/a, 100)
NumSamples == 100
\* E(k, i, a, U0b=4, **kwargs) inside getBands
getBands_U0b == 4

(* --------------------------- exact numbers ---------------------------- *)
Abs(x) == IF x < 0 THEN -x ELSE x

RECURSIVE GCD(_, _)
GCD(x, y) == IF y = 0 THEN x ELSE GCD(y, x % y)

\* (n/d) * pi^e in lowest terms, d # 0
Num(n, d, e) ==
    IF n = 0 THEN [num |-> 0, den |-> 1, pe |-> 0]
    ELSE LET g == GCD(Abs(n), Abs(d))
             s == IF d < 0 THEN -1 ELSE 1
         IN  [num |-> (s * n) \div g, den |-> (s * d) \div g, pe |-> e]

Whole(n) == Num(n, 1, 0)
pi == Num(1, 1, 1)
Neg(x) == Num(-x.num, x.den, x.pe)
Mul(x, y) == Num(x.num * y.num, x.den * y.den, x.pe + y.pe)
\* x / y for y # 0
Div(x, y) == Num(x.num * y.den, x.den * y.num, x.pe - y.pe)
\* x + y, for summands carrying the same power of pi (or zero)
Add(x, y) ==
    IF x.num = 0 THEN y
    ELSE IF y.num = 0 THEN x
    ELSE Num(x.num * y.den + y.num * x.den, x.den * y.den, x.pe)

\* cos(x) for x a rational multiple of pi: x is reduced modulo 2*pi and
\* reflected into [0, pi]; the value is identified by that angle.
cos(x) ==
    LET r == x.num % (2 * x.den)
        f == IF r > x.den THEN 2 * x.den - r ELSE r
    IN  [cos |-> Num(f, x.den, 1)]

(* ------------------------ dispersion residual ------------------------- *)
\* _Kronig_Penney(K, k, a, U0b) as a function of the unknown K: the map
\*   K |-> U0b/(2K) * sin(K a) + cos(K a) - cos(k a)
\* is determined by U0b, a and the number cos(k a).
Kronig_Penney_odd(k, a, U0b) ==
    [U0b |-> U0b, a |-> a, coska |-> [sin |-> Mul(k, a)]]

Kronig_Penney(k, a, U0b) ==
    [U0b |-> U0b, a |-> a, coska |-> cos(Mul(k, a))]

\* scipy.optimize.fsolve(func, x0, args): a deterministic local search from
\* x0.  With a = 0 the residual is sin(0)*U0b/(2K) + cos(0) - cos(0) = 0 at
\* every K # 0, so the search stops at x0 itself.
fsolve(func, x0) ==
    IF func.a.num = 0 THEN x0 ELSE [root |-> func, x0 |-> x0]

\* K**2
Square(K) == IF "num" \in DOMAIN K THEN Mul(K, K) ELSE [sq |-> K]

(* --------------------------- energy solver ---------------------------- *)
\* the initial guess (n + 1/2)*pi
seed_floor(n) == Mul(Add(Whole(n), Whole(1 \div 2)), pi)

seed(n) == Mul(Add(Whole(n), Num(1, 2, 0)), pi)

\* the keyword options E hands to fsolve: fsolve(f, x0, args=(k, a, U0b))
fsolve_options(kwargs) == {}

\* one invocation of the root-finder, as E makes it for one element.
\* n is the band index, j the 1-based position of the element (0 for the
\* call np.vectorize makes to find the output type).
Invocation(k, n, a, U0b, kwargs, j) ==
    [n |-> n, j |-> j, x0 |-> seed(n), k |-> k, a |-> a, U0b |-> U0b,
     options |-> fsolve_options(kwargs)]

\* the body of E for one element: K = fsolve(...); return K**2
E_body(k, n, a, U0b) ==
    Square(fsolve(Kronig_Penney(k, Whole(a), U0b), seed(n)))

(* ------------------------------- state -------------------------------- *)
VARIABLES
    pc,      \* position of the running call
    call,    \* the top-level call: its name and the arguments given
    k,       \* the wavenumber array of the running call
    pending, \* E, direct call: positions of k not yet solved
    out,     \* E, direct call: the output array being filled
    bands,   \* getBands: the list of bands built so far
    calls,   \* every root-finder invocation made so far, in order
    ax,      \* the axes handed to the rendering sink
    ret,     \* the value returned
    exc      \* the exception raised, "" when none

vars == <<pc, call, k, pending, out, bands, calls, ax, ret, exc>>

None == "None"
NoAxes == [lines |-> <<>>, xlabel |-> None, ylabel |-> None, title |-> None,
           minorticks |-> FALSE, grid |-> FALSE, legend |-> <<>>]
NoArray == [shape |-> <<>>, flat |-> <<>>]

(* ------------------------------- inputs ------------------------------- *)
\* wavenumbers offered to a direct call of E: -pi/2, 0, pi/3, pi/2
kVals == { Neg(Div(pi, Whole(2))), Whole(0), Div(pi, Whole(3)), Div(pi, Whole(2)) }
RECURSIVE SeqsUpTo(_, _)
SeqsUpTo(S, n) ==
    IF n = 0 THEN { <<>> }
    ELSE LET shorter == SeqsUpTo(S, n - 1)
         IN  shorter \cup { Append(s, x) : s \in { t \in shorter : Len(t) = n - 1 }, x \in S }
\* a wavenumber argument: a number (0-d array) or a sequence (1-d array)
kArgs == { [shape |-> <<>>, flat |-> <<x>>] : x \in kVals }
         \cup { [shape |-> <<Len(s)>>, flat |-> s] : s \in SeqsUpTo(kVals, MaxLen) }
nArgs == 0..MaxN
\* the band index of a direct call of E, given or left out
E_nArgs == { [given |-> FALSE] } \cup { [given |-> TRUE, n |-> n] : n \in nArgs }
aArgs == 0..MaxA
U0bArgs == {2, 4}
\* keyword options, as sets of <<name, value>> pairs
kwargsArgs == { {}, { <<"xtol", "1e-12">> } }
titleArgs == { None, "bands" }

Init ==
    /\ pc = "idle"
    /\ call = [op |-> None]
    /\ k = NoArray
    /\ pending = {}
    /\ out = <<>>
    /\ bands = <<>>
    /\ calls = <<>>
    /\ ax = NoAxes
    /\ ret = None
    /\ exc = ""

(* ------------------------- E, called directly ------------------------- *)
\* E(k, [n], a, U0b, **kwargs): np.vectorize binds the arguments; an
\* omitted n takes the default of the signature.
E_n_lowest(n) == IF n.given THEN n.n ELSE 0

E_n(n) == IF n.given THEN n.n ELSE E_default_n

CallE ==
    /\ pc = "idle"
    /\ \E kArg \in kArgs, n \in E_nArgs, a \in aArgs, U0b \in U0bArgs,
          kwargs \in kwargsArgs :
          /\ call' = [op |-> "E", n |-> n, a |-> a, U0b |-> U0b, kwargs |-> kwargs]
          /\ k' = kArg
    /\ pc' = "E_otypes"
    /\ UNCHANGED <<pending, out, bands, calls, ax, ret, exc>>

\* np.vectorize without otypes: the function is called on the first
\* element to learn the output type, and the result is not kept (cache is
\* False); an input of size 0 is refused.
E_otypes ==
    /\ pc = "E_otypes"
    /\ IF Len(k.flat) = 0
       THEN /\ pc' = "raised"
            /\ exc' = "ValueError"
            /\ UNCHANGED <<pending, out, calls>>
       ELSE /\ pc' = "E_loop"
            /\ calls' = Append(calls, Invocation(k.flat[1], E_n(call.n), call.a,
                                                 call.U0b, call.kwargs, 0))
            /\ pending' = 1..Len(k.flat)
            /\ out' = [j \in 1..Len(k.flat) |-> None]
            /\ exc' = exc
    /\ UNCHANGED <<call, k, bands, ax, ret>>

\* the element the loop reads for output position j
E_element_first(j) == k.flat[1]

E_element(j) == k.flat[j]

\* one element of the ufunc loop.  The order is left open: the elements
\* are solved one at a time, each from its own inputs.
E_step(j) ==
    /\ pc = "E_loop"
    /\ j \in pending
    /\ calls' = Append(calls, Invocation(E_element(j), E_n(call.n), call.a,
                                         call.U0b, call.kwargs, j))
    /\ out' = [out EXCEPT ![j] = E_body(E_element(j), E_n(call.n), call.a, call.U0b)]
    /\ pending' = pending \ {j}
    /\ UNCHANGED <<pc, call, k, bands, ax, ret, exc>>

E_return ==
    /\ pc = "E_loop"
    /\ pending = {}
    /\ pc' = "done"
    /\ ret' = [shape |-> k.shape, flat |-> out]
    /\ UNCHANGED <<call, k, pending, out, bands, calls, ax, exc>>

(* -------------------------- E, as one step ---------------------------- *)
\* a whole call E(k, n, a, U0b, **kwargs) on a non-empty array: the call
\* on the first element that finds the output type, then every element in
\* index order.
vectorize_E_cached(karr, n, a, U0b, kwargs) ==
    [out   |-> [j \in 1..Len(karr.flat) |-> E_body(karr.flat[j], n, a, U0b)],
     calls |-> [j \in 1..Len(karr.flat) |->
                      Invocation(karr.flat[j], n, a, U0b, kwargs, j)]]

vectorize_E(karr, n, a, U0b, kwargs) ==
    [out   |-> [j \in 1..Len(karr.flat) |-> E_body(karr.flat[j], n, a, U0b)],
     calls |-> <<Invocation(karr.flat[1], n, a, U0b, kwargs, 0)>>
               \o [j \in 1..Len(karr.flat) |->
                      Invocation(karr.flat[j], n, a, U0b, kwargs, j)]]

(* ------------------------------ getBands ------------------------------ *)
\* np.linspace(start, stop, num): step = (stop - start)/(num - 1),
\* y = arange(num)*step + start, and the last sample is set to stop.
linspace_open(start, stop, num) ==
    LET step == Div(Add(stop, Neg(start)), Whole(num))
    IN  [shape |-> <<num>>,
         flat  |-> [j \in 1..num |-> Add(Mul(Whole(j - 1), step), start)]]

linspace(start, stop, num) ==
    LET step == Div(Add(stop, Neg(start)), Whole(num - 1))
    IN  [shape |-> <<num>>,
         flat  |-> [j \in 1..num |->
                      IF j = num THEN stop
                      ELSE Add(Mul(Whole(j - 1), step), start)]]

\* k = np.linspace(-pi/a, pi/a, 100), a # 0
getBands_k(a) ==
    linspace(Div(Neg(pi), Whole(a)), Div(pi, Whole(a)), NumSamples)

\* the U0b that getBands hands to E: E(k, i, a, U0b=4, **kwargs)
getBands_E_U0b(U0b) == getBands_U0b

CallGetBands ==
    /\ pc = "idle"
    /\ \E n \in nArgs, a \in aArgs, U0b \in U0bArgs, kwargs \in kwargsArgs :
          /\ call' = [op |-> "getBands", n |-> n, a |-> a, U0b |-> U0b,
                      kwargs |-> kwargs]
          /\ IF a = 0
             THEN /\ pc' = "raised"
                  /\ exc' = "ZeroDivisionError"
                  /\ k' = k
             ELSE /\ pc' = "getBands"
                  /\ k' = getBands_k(a)
                  /\ exc' = exc
    /\ UNCHANGED <<pending, out, bands, calls, ax, ret>>

\* the next band index of [E(k, i, a, U0b=4, **kwargs) for i in range(n)]
getBands_i_from_one == Len(bands) + 1

getBands_i == Len(bands)

getBands_step ==
    /\ pc = "getBands"
    /\ Len(bands) < call.n
    /\ LET r == vectorize_E(k, getBands_i, call.a, getBands_E_U0b(call.U0b),
                            call.kwargs)
       IN  /\ bands' = Append(bands, r.out)
           /\ calls' = calls \o r.calls
    /\ UNCHANGED <<pc, call, k, pending, out, ax, ret, exc>>

\* return bands; inside plotBands the caller goes on to plt.subplots
getBands_return ==
    /\ pc = "getBands"
    /\ Len(bands) = call.n
    /\ IF call.op = "getBands"
       THEN /\ pc' = "done"
            /\ ret' = bands
       ELSE /\ pc' = "plot"
            /\ ret' = ret
    /\ UNCHANGED <<call, k, pending, out, bands, calls, ax, exc>>

(* ------------------------------ plotBands ----------------------------- *)
Digit == <<"0", "1", "2", "3", "4", "5", "6", "7", "8", "9">>

\* "{}".format(i) for an integer i >= 0: its decimal digits
RECURSIVE format_int(_)
format_int(i) ==
    IF i < 10 THEN Digit[i + 1] ELSE format_int(i \div 10) \o Digit[(i % 10) + 1]

\* "${}$-th band".format(i)
band_label_plain(i) == format_int(i) \o "-th band"

band_label(i) == "$" \o format_int(i) \o "$-th band"

\* "Plotting of {} bands".format(n) unless a title is given
plot_title(title, n) ==
    IF title = None THEN "Plotting of " \o format_int(n) \o " bands" ELSE title

\* title, then k = np.linspace(-pi/a, pi/a, 100), then getBands(n, a, U0b,
\* **kwargs), which builds the same k again from the same a.
CallPlotBands ==
    /\ pc = "idle"
    /\ \E n \in nArgs, a \in aArgs, U0b \in U0bArgs, title \in titleArgs,
          kwargs \in kwargsArgs :
          /\ call' = [op |-> "plotBands", n |-> n, a |-> a, U0b |-> U0b,
                      title |-> plot_title(title, n), kwargs |-> kwargs]
          /\ IF a = 0
             THEN /\ pc' = "raised"
                  /\ exc' = "ZeroDivisionError"
                  /\ k' = k
             ELSE /\ pc' = "getBands"
                  /\ k' = getBands_k(a)
                  /\ exc' = exc
    /\ UNCHANGED <<pending, out, bands, calls, ax, ret>>

\* for i, band in enumerate(bands): ax.plot(k, band, label=...)
plot_step ==
    /\ pc = "plot"
    /\ Len(ax.lines) < Len(bands)
    /\ LET i == Len(ax.lines)
       IN  ax' = [ax EXCEPT !.lines =
                     Append(@, [x |-> k, y |-> bands[i + 1], label |-> band_label(i)])]
    /\ UNCHANGED <<pc, call, k, pending, out, bands, calls, ret, exc>>

\* axis labels, title, minor ticks, grid, legend; return fig, ax
plot_return ==
    /\ pc = "plot"
    /\ Len(ax.lines) = Len(bands)
    /\ pc' = "done"
    /\ ax' = [ax EXCEPT !.xlabel = "$k$",
                        !.ylabel = "$2m E/\\hbar^2$",
                        !.title = call.title,
                        !.minorticks = TRUE,
                        !.grid = TRUE,
                        !.legend = [i \in 1..Len(ax.lines) |-> ax.lines[i].label]]
    /\ ret' = <<"fig", "ax">>
    /\ UNCHANGED <<call, k, pending, out, bands, calls, exc>>

(* --------------------------- specification ---------------------------- *)
Next ==
    \/ CallE
    \/ E_otypes
    \/ \E j \in pending : E_step(j)
    \/ E_return
    \/ CallGetBands
    \/ getBands_step
    \/ getBands_return
    \/ CallPlotBands
    \/ plot_step
    \/ plot_return

Spec == Init /\ [][Next]_vars

Returned == pc = "done"
Raised == pc = "raised"

(* ------------------------------ properties ---------------------------- *)
IsE == call.op = "E"
IsGetBands == call.op = "getBands"
IsPlotBands == call.op = "plotBands"
Assembling == IsGetBands \/ IsPlotBands
\* the energy that the root-finder invocation c leads to
EnergyOf(c) == Square(fsolve(Kronig_Penney(c.k, Whole(c.a), c.U0b), c.x0))
\* the invocations that fill an output position (not the output-type call)
Solves(n, j) == { x \in 1..Len(calls) : calls[x].n = n /\ calls[x].j = j }

\* C1: for every band count N >= 0 and spacing a > 0, getBands returns
\* exactly N bands; each band has exactly 100 samples, sample j being the
\* energy solved for wavenumber j of a sequence of 100 evenly spaced points
\* that starts at -pi/a and ends at +pi/a.
C1_BandsShape ==
    /\ (IsGetBands /\ call.a > 0) => ~Raised
    /\ (IsGetBands /\ Returned) =>
          /\ Len(ret) = call.n
          /\ Len(k.flat) = 100
          /\ k.flat[1] = [num |-> -1, den |-> call.a, pe |-> 1]
          /\ k.flat[100] = [num |-> 1, den |-> call.a, pe |-> 1]
          /\ \A j \in 1..99 :
                Add(k.flat[j + 1], Neg(k.flat[j])) = Add(k.flat[2], Neg(k.flat[1]))
          /\ \A i \in 1..Len(ret) :
                /\ Len(ret[i]) = 100
                /\ \A j \in 1..100 :
                      \E x \in Solves(i - 1, j) :
                          /\ calls[x].k = k.flat[j]
                          /\ ret[i][j] = EnergyOf(calls[x])

C1_Witness == IsGetBands /\ Returned /\ call.n = 2 /\ call.a = 2

\* C2 (as claimed): every root-finder invocation made for getBands or
\* plotBands receives the caller's a and the caller's U0b.
C2_CallerParameters ==
    Assembling =>
        \A x \in 1..Len(calls) : calls[x].a = call.a /\ calls[x].U0b = call.U0b

\* C3 (as claimed): with the band index left out, E uses band index 0: the
\* seed is (0 + 1/2)*pi and the result is that of E(k, n=0).
C3_DefaultIsLowestBand ==
    (IsE /\ ~call.n.given /\ Returned) =>
        /\ \A x \in 1..Len(calls) : calls[x].x0 = [num |-> 1, den |-> 2, pe |-> 1]
        /\ \A j \in 1..Len(k.flat) :
              ret.flat[j] = E_body(k.flat[j], 0, call.a, call.U0b)

\* C3 (amended): with the band index left out, E uses band index 1: the
\* seed is (1 + 1/2)*pi and the result is that of E(k, n=1).
C3_DefaultIsBandOne ==
    (IsE /\ ~call.n.given /\ Returned) =>
        /\ \A x \in 1..Len(calls) :
              calls[x].n = 1 /\ calls[x].x0 = [num |-> 3, den |-> 2, pe |-> 1]
        /\ \A j \in 1..Len(k.flat) :
              ret.flat[j] = E_body(k.flat[j], 1, call.a, call.U0b)

C3_Witness == IsE /\ ~call.n.given /\ Returned /\ call.a > 0 /\ Len(calls) > 1

\* C4 (as claimed): the solver options the caller gives reach every
\* root-finder invocation made for the call, none dropped.
C4_OptionsPassedThrough ==
    \A x \in 1..Len(calls) : calls[x].options = call.kwargs

\* C5 (as claimed): plotBands(n) hands exactly n series to the sink, band
\* i = 0..n-1 in order, series i labelled "<i>-th band".
C5_PlainLabels ==
    (IsPlotBands /\ Returned) =>
        /\ Len(ax.lines) = call.n
        /\ \A i \in 1..Len(ax.lines) :
              /\ ax.lines[i].label = ToString(i - 1) \o "-th band"
              /\ ax.lines[i].x = k
              /\ ax.lines[i].y = bands[i]

\* C5 (amended): plotBands(n) hands exactly n series to the sink, band
\* i = 0..n-1 in order, series i labelled "$<i>$-th band", and returns
\* the figure and the axes holding exactly those series.
C5_DollarLabels ==
    (IsPlotBands /\ Returned) =>
        /\ Len(ax.lines) = call.n
        /\ Len(bands) = call.n
        /\ \A i \in 1..Len(ax.lines) :
              /\ ax.lines[i].label = "$" \o ToString(i - 1) \o "$-th band"
              /\ ax.lines[i].x = k
              /\ ax.lines[i].y = bands[i]
        /\ ax.legend = [i \in 1..call.n |-> "$" \o ToString(i - 1) \o "$-th band"]
        /\ ret = <<"fig", "ax">>

C5_Witness == IsPlotBands /\ Returned /\ call.n = 2

\* C6 (as claimed): with a = 0 every entry point fails fast with
\* InvalidParameter: no root-finder invocation, nothing returned, nothing
\* handed to the sink.
C6_FailFast ==
    (call.op # None /\ call.a = 0) =>
        /\ calls = <<>>
        /\ ~Returned
        /\ ax.lines = <<>>
        /\ Raised => exc = "InvalidParameter"

\* C7: E(k, n, a, U0b) = E(-k, n, a, U0b): elements of one call at opposite
\* wavenumbers get equal energies, every element's energy is the one the
\* opposite wavenumber gives, and the two halves of a band mirror each
\* other.
C7_Symmetry ==
    /\ (IsE /\ Returned) =>
          /\ \A j \in 1..Len(k.flat) :
                ret.flat[j] = E_body(Neg(k.flat[j]), E_n(call.n), call.a, call.U0b)
          /\ \A i, j \in 1..Len(k.flat) :
                k.flat[i] = Neg(k.flat[j]) => ret.flat[i] = ret.flat[j]
    /\ (IsGetBands /\ Returned) =>
          \A i \in 1..Len(ret) : \A j \in 1..100 :
              /\ k.flat[101 - j] = Neg(k.flat[j])
              /\ ret[i][101 - j] = ret[i][j]

C7_Witness ==
    /\ IsE /\ Returned /\ call.a > 0
    /\ \E i, j \in 1..Len(k.flat) : k.flat[i].num > 0 /\ k.flat[i] = Neg(k.flat[j])

\* C8 (as claimed): on any sequence k, E returns a sequence of the same
\* shape whose j-th element is the scalar solve of k[j], in whatever order
\* the elements are solved.
C8_Elementwise ==
    (IsE /\ k.shape # <<>>) =>
        /\ ~Raised
        /\ Returned =>
              /\ ret.shape = k.shape
              /\ \A j \in 1..Len(k.flat) :
                    ret.flat[j] = E_body(k.flat[j], E_n(call.n), call.a, call.U0b)

\* C8 (amended): on any non-empty sequence k, E returns a sequence of the
\* same shape whose j-th element is the scalar solve of k[j], in whatever
\* order the elements are solved: an element once solved has that value
\* whichever elements are still to be solved.
C8_ElementwiseNonEmpty ==
    (IsE /\ k.shape # <<>> /\ Len(k.flat) > 0) =>
        /\ ~Raised
        /\ pc = "E_loop" =>
              \A j \in (1..Len(k.flat)) \ pending :
                  out[j] = E_body(k.flat[j], E_n(call.n), call.a, call.U0b)
        /\ Returned =>
              /\ ret.shape = k.shape
              /\ Len(ret.flat) = Len(k.flat)
              /\ \A j \in 1..Len(k.flat) :
                    ret.flat[j] = E_body(k.flat[j], E_n(call.n), call.a, call.U0b)

\* a call on two different wavenumbers, the second solved before the first
C8_Witness ==
    /\ IsE /\ Returned /\ k.shape = <<2>> /\ call.a > 0
    /\ k.flat[1] # k.flat[2]
    /\ ret.flat[1] # ret.flat[2]
    /\ calls[2].j = 2

\* C9 (as claimed): one root-finder invocation per (sample, band) pair:
\* N*100 for getBands(N), L for E on L wavenumbers.
C9_OncePerSample ==
    /\ (IsE /\ Returned) => Len(calls) = Len(k.flat)
    /\ (IsGetBands /\ Returned) => Len(calls) = call.n * 100

\* C9 (amended): no retry: each output position is solved by exactly one
\* invocation, and each elementwise call of E makes one more, on its first
\* element, to find the output type; all use the heuristic guess.  That is
\* N*101 invocations for getBands(N) and L+1 for E on L wavenumbers.
C9_OncePerSamplePlusTypeCall ==
    /\ \A x \in 1..Len(calls) :
          calls[x].x0 = [num |-> 2 * calls[x].n + 1, den |-> 2, pe |-> 1]
    /\ (IsE /\ Returned) =>
          /\ Len(calls) = Len(k.flat) + 1
          /\ \A j \in 1..Len(k.flat) : Cardinality(Solves(E_n(call.n), j)) = 1
          /\ Cardinality(Solves(E_n(call.n), 0)) = 1
          /\ \A x \in Solves(E_n(call.n), 0) : calls[x].k = k.flat[1]
    /\ (IsGetBands /\ Returned) =>
          /\ Len(calls) = call.n * 101
          /\ \A i \in 0..(call.n - 1) :
                /\ \A j \in 1..100 : Cardinality(Solves(i, j)) = 1
                /\ Cardinality(Solves(i, 0)) = 1
                /\ \A x \in Solves(i, 0) : calls[x].k = k.flat[1]

C9_Witness == IsGetBands /\ Returned /\ call.n = 2 /\ Len(calls) = 202

\* C10: every invocation made while computing bands[i] uses band index i
\* and the guess (i + 1/2)*pi; the guess is strictly positive, never 0.
C10_Seeding ==
    /\ \A x \in 1..Len(calls) : calls[x].n >= 0 => calls[x].x0.num > 0
    /\ Assembling =>
          /\ Len(calls) = Len(bands) * 101
          /\ \A x \in 1..Len(calls) :
                LET i == (x - 1) \div 101
                IN  /\ calls[x].n = i
                    /\ calls[x].x0 = [num |-> 2 * i + 1, den |-> 2, pe |-> 1]
          /\ \A i \in 1..Len(bands) : \A j \in 1..Len(bands[i]) :
                bands[i][j] = EnergyOf([k |-> k.flat[j], a |-> call.a,
                                        U0b |-> getBands_U0b,
                                        x0 |-> [num |-> 2 * i - 1, den |-> 2, pe |-> 1]])

C10_Witness == IsGetBands /\ Returned /\ call.n = 2 /\ calls[102].n = 1

=============================================================================
